---- MODULE Spec2Model ----
(***************************************************************************)
(* A model of the allocation micro-benchmark of src/src/main.rs: the       *)
(* AllocRefV2 trait (alloc_zst, alloc_non_zst, alloc) over the Global and  *)
(* Bump backends, the layout generator make_layouts, the three timing      *)
(* loops test_alloc / test_alloc_zst / test_alloc_non_zst, run_test and    *)
(* the argument parsing of main.                                           *)
(***************************************************************************)
EXTENDS Integers, Sequences, FiniteSets, TLC

(* ------------------------------------------------------------------ *)
(* Bounds of the model.                                                *)
(* ------------------------------------------------------------------ *)

\* The largest iteration count that appears on the command line.
MaxIters == 2

\* The random source is sampled at the RngSpread lowest and the RngSpread
\* highest values of every requested range.
RngSpread == 2

\* The largest elapsed time (in microseconds) the clock can report.
MaxElapsed == 1

(* ------------------------------------------------------------------ *)
(* Program constants.                                                  *)
(* ------------------------------------------------------------------ *)

\* rng.gen_range(0, 1): the zero-sized distribution.
ZeroSizeLow == 0
ZeroSizeHigh == 1
\* rng.gen_range(1, 1025): the non-zero distribution.
NonZeroSizeLow == 1
NonZeroSizeHigh == 1025
\* 2usize.pow(rng.gen_range(0, 4)): the alignment exponent.
AlignBase == 2
AlignExpLow == 0
AlignExpHigh == 4
\* Bump::with_capacity(1024 * iters)
BytesPerIter == 1024

\* Addresses the two backends hand out.  The first heap address and the first
\* address of the arena's chunk: both are aligned for every alignment in use.
HeapBase == 4096
ArenaBase == 65536

\* The exit status of a Rust process whose main thread panicked.
PanicStatus == 101

(* ------------------------------------------------------------------ *)
(* Values.                                                             *)
(* ------------------------------------------------------------------ *)

\* Result<NonNull<u8>, AllocErr>
Ok(addr) == [ok |-> TRUE, addr |-> addr]
AllocErr == [ok |-> FALSE, addr |-> 0]

\* std::alloc::Layout and alloc_wg's NonZeroLayout.
Layout(size, align) == [size |-> size, align |-> align]
NonZeroLayout(size, align) == [nonzero_size |-> size, align |-> align]

\* Option / Result of the parsers and conversions.
Some(v) == [some |-> TRUE, val |-> v]
None(dflt) == [some |-> FALSE, val |-> dflt]

RECURSIVE pow(_, _)
pow(b, e) == IF e = 0 THEN 1 ELSE b * pow(b, e - 1)

\* usize::is_power_of_two, as used by Layout::from_size_align.
is_power_of_two(n) == n > 0 /\ \E e \in 0..20 : pow(2, e) = n

\* Layout::from_size_align(size, align): Err unless align is a power of two.
from_size_align(size, align) ==
  IF is_power_of_two(align) THEN Some(Layout(size, align)) ELSE None(Layout(0, 1))

\* TryFrom<Layout> for NonZeroLayout: Err on a zero size.
try_into(layout) ==
  IF layout.size = 0
    THEN None(NonZeroLayout(1, 1))
    ELSE Some(NonZeroLayout(layout.size, layout.align))

\* From<NonZeroLayout> for Layout.
into(nz) == Layout(nz.nonzero_size, nz.align)

round_up(n, align) == ((n + align - 1) \div align) * align

(* ------------------------------------------------------------------ *)
(* The allocator abstraction: trait AllocRefV2 and its two backends.   *)
(*                                                                     *)
(* A backend state s is [heap, bump]: heap is the first free address   *)
(* of the Global heap, bump is the arena [live, base, cap, cursor].    *)
(* Every operation yields a set of outcomes                            *)
(*   [res, heap, bump, ops, panic]                                     *)
(* where ops lists the specialised operations that ran, in order.      *)
(* ------------------------------------------------------------------ *)

NoBump == [live |-> FALSE, base |-> 0, cap |-> 0, cursor |-> 0]

Outcome(res, s, ops) ==
  [res |-> res, heap |-> s.heap, bump |-> s.bump, ops |-> ops, panic |-> FALSE]

\* The unwinding of a failed unwrap(): no result, no state change.
Panicked(s) ==
  [res |-> AllocErr, heap |-> s.heap, bump |-> s.bump, ops |-> <<>>, panic |-> TRUE]

Op(name, size, align) == [op |-> name, size |-> size, align |-> align]

\* AllocRef::alloc of Global: the system heap either refuses the request or
\* serves it at the next address aligned as requested.
Global_alloc(s, nz) ==
  LET addr == round_up(s.heap, nz.align)
  IN  { [res |-> AllocErr, heap |-> s.heap, bump |-> s.bump] ,
        [res |-> Ok(addr), heap |-> addr + nz.nonzero_size, bump |-> s.bump] }

\* AllocRef::alloc of &Bump: the cursor is aligned and advanced; a request that
\* does not fit the chunk is an allocation error.
Bump_alloc(s, layout) ==
  LET b == s.bump
      addr == round_up(b.base + b.cursor, layout.align)
  IN  IF addr + layout.size <= b.base + b.cap
        THEN { [res |-> Ok(addr), heap |-> s.heap,
                bump |-> [b EXCEPT !.cursor = addr + layout.size - b.base]] }
        ELSE { [res |-> AllocErr, heap |-> s.heap, bump |-> s.bump] }

\* impl AllocRefV2 for &Bump<A> / for Global: alloc_non_zst.
alloc_non_zst(a, s, nz) ==
  LET served == IF a = "Bump" THEN Bump_alloc(s, into(nz)) ELSE Global_alloc(s, nz)
  IN  { [res |-> o.res, heap |-> o.heap, bump |-> o.bump,
         ops |-> << Op("alloc_non_zst", nz.nonzero_size, nz.align) >>,
         panic |-> FALSE] : o \in served }

\* alloc_zst with the size, not the alignment, taken as the address.
alloc_zst_from_size(a, s, layout) ==
  { Outcome(Ok(layout.size), s, << Op("alloc_zst", layout.size, layout.align) >>) }

\* AllocRefV2::alloc_zst: the alignment, reinterpreted as an address.
alloc_zst(a, s, layout) ==
  { Outcome(Ok(layout.align), s, << Op("alloc_zst", layout.size, layout.align) >>) }

\* alloc without its branch: every layout goes to alloc_non_zst.
alloc_no_branch(a, s, layout) ==
  LET nz == try_into(layout)
  IN  IF nz.some THEN alloc_non_zst(a, s, nz.val) ELSE { Panicked(s) }

\* alloc without its branch: every layout takes the sentinel path.
alloc_always_zst(a, s, layout) == alloc_zst(a, s, layout)

\* AllocRefV2::alloc: the branch on layout.size() == 0.
alloc(a, s, layout) ==
  IF layout.size = 0
    THEN alloc_zst(a, s, layout)
    ELSE LET nz == try_into(layout)
         IN  IF nz.some THEN alloc_non_zst(a, s, nz.val) ELSE { Panicked(s) }

(* ------------------------------------------------------------------ *)
(* The layout generator.                                               *)
(* ------------------------------------------------------------------ *)

\* gen_range with the upper end included.
gen_range_inclusive(low, high) ==
  { v \in { low + i : i \in 0..(RngSpread - 1) }
            \cup { high - i : i \in 0..(RngSpread - 1) } :
      low <= v /\ v <= high }

\* rng.gen_range(low, high): a value of the half-open range [low, high).
gen_range(low, high) ==
  { v \in { low + i : i \in 0..(RngSpread - 1) }
            \cup { high - 1 - i : i \in 0..(RngSpread - 1) } :
      low <= v /\ v < high }

\* One pass of the closure of make_layouts: the (size, align) pair drawn.
draw_layout(is_zero_) ==
  { from_size_align(size, pow(AlignBase, e)) :
      size \in (IF is_zero_ THEN gen_range(ZeroSizeLow, ZeroSizeHigh)
                            ELSE gen_range(NonZeroSizeLow, NonZeroSizeHigh)),
      e \in gen_range(AlignExpLow, AlignExpHigh) }

\* make_layouts(num, is_zero): every sequence of num draws; expect() panics on
\* an invalid pair, otherwise the draws are collected in order.
make_layouts(num, is_zero_) ==
  { IF \E i \in 1..num : ~d[i].some
      THEN [panic |-> TRUE, layouts |-> <<>>]
      ELSE [panic |-> FALSE, layouts |-> [i \in 1..num |-> d[i].val]] :
    d \in [1..num -> draw_layout(is_zero_)] }

(* ------------------------------------------------------------------ *)
(* Command line parsing.                                               *)
(* ------------------------------------------------------------------ *)

Digits == << "0", "1", "2", "3", "4", "5", "6", "7", "8", "9" >>

digit_value(c) == (CHOOSE i \in 1..Len(Digits) : Digits[i] = c) - 1

is_digit(c) == \E i \in 1..Len(Digits) : Digits[i] = c

RECURSIVE digits_value(_)
digits_value(s) ==
  IF s = <<>> THEN 0
  ELSE 10 * digits_value(SubSeq(s, 1, Len(s) - 1)) + digit_value(s[Len(s)])

\* <usize as FromStr>::from_str: an optional '+', then one or more digits.
parse_usize(s) ==
  LET body == IF s # <<>> /\ s[1] = "+" THEN Tail(s) ELSE s
  IN  IF body # <<>> /\ \A i \in 1..Len(body) : is_digit(body[i])
        THEN Some(digits_value(body))
        ELSE None(0)

\* <bool as FromStr>::from_str: exactly "true" or "false".
parse_bool(s) ==
  IF s = << "t", "r", "u", "e" >> THEN Some(TRUE)
  ELSE IF s = << "f", "a", "l", "s", "e" >> THEN Some(FALSE)
  ELSE None(FALSE)

\* nth counting the program name as the first argument.
nth_off_by_one(argv_, n) == IF n <= Len(argv_) THEN Some(argv_[n]) ELSE None(<<>>)

\* env::args().nth(n): argv[0] is the program name.
nth(argv_, n) == IF n + 1 <= Len(argv_) THEN Some(argv_[n + 1]) ELSE None(<<>>)

(* ------------------------------------------------------------------ *)
(* The process.                                                        *)
(* ------------------------------------------------------------------ *)

VARIABLES
  argv,         \* the command line, argv[1] the program name
  pc,           \* the position of the single thread of control
  iters,        \* main: the parsed arguments
  is_bump,
  is_zero,
  is_direct,
  heap,         \* the Global heap: its first free address
  bump,         \* the arena, NoBump until main constructs it
  layouts,      \* run_test: the generated layouts
  nz_layouts,   \* run_test: the batch converted to NonZeroLayout
  entry,        \* the test function run_test called
  allocations,  \* test_*: the results buffer
  capacity,     \* test_*: the capacity reserved for the results buffer
  idx,          \* test_*: the number of layouts the for loop has consumed
  clock,        \* the monotonic clock, in microseconds
  before,       \* test_*: the start timestamp
  stdout,       \* lines printed to standard output
  stderr,       \* the panic message, "" if none
  exit_code,    \* the exit status, -1 while the process runs
  trace         \* history: the events of the run, in order

vars == << argv, pc, iters, is_bump, is_zero, is_direct, heap, bump, layouts,
           nz_layouts, entry, allocations, capacity, idx, clock, before,
           stdout, stderr, exit_code, trace >>

main_vars == << iters, is_bump, is_zero, is_direct >>
backend_vars == << heap, bump >>
run_vars == << layouts, nz_layouts, entry >>
test_vars == << allocations, capacity, idx, before >>

MsgIters == "Expected number of iterations."
MsgIsBump == "Expected '0' (global) or '1' (bump) to indicate allocator type."
MsgIsZero == "Expected '0' (randomly distributed, non-zero allocations) or '1' (zero-sized allocations) to indicate allocator type."
MsgIsDirect == "Expected '0' (branched) or '1' (direct) to function call type."
MsgParseInt == "called Result::unwrap() on an Err value: ParseIntError"
MsgParseBool == "called Result::unwrap() on an Err value: ParseBoolError"
MsgLayout == "Failed to create layout"
MsgNonZero == "called Result::unwrap() on an Err value: LayoutErr"

\* The words an argument is drawn from.
Words ==
  { << Digits[n + 1] >> : n \in 0..MaxIters }
    \cup { << "t", "r", "u", "e" >>, << "f", "a", "l", "s", "e" >>, << "x" >> }

\* An event of the run; a "call" event carries the position of the layout, the
\* specialised operations that ran and the result of the call.
Event(ev, i, ops, res) == [ev |-> ev, idx |-> i, ops |-> ops, res |-> res]

Mark(ev) == Event(ev, 0, <<>>, AllocErr)

\* A panic of the main thread: the message goes to standard error and the
\* process ends with the panic status.
Panic(msg) ==
  /\ pc' = "panicked"
  /\ stderr' = msg
  /\ exit_code' = PanicStatus

Init ==
  /\ argv \in UNION { [1..(n + 1) -> Words] : n \in 0..4 }
  /\ argv[1] = << "x" >>
  /\ pc = "parse_iters"
  /\ iters = 0
  /\ is_bump = FALSE
  /\ is_zero = FALSE
  /\ is_direct = FALSE
  /\ heap = HeapBase
  /\ bump = NoBump
  /\ layouts = <<>>
  /\ nz_layouts = <<>>
  /\ entry = ""
  /\ allocations = <<>>
  /\ capacity = 0
  /\ idx = 0
  /\ clock = 0
  /\ before = 0
  /\ stdout = <<>>
  /\ stderr = ""
  /\ exit_code = -1
  /\ trace = <<>>

\* main: let iters: usize = env::args().nth(1).expect(..).parse().unwrap();
ParseIters ==
  /\ pc = "parse_iters"
  /\ LET arg == nth(argv, 1)
         val == parse_usize(arg.val)
     IN  IF ~arg.some THEN Panic(MsgIters) /\ iters' = iters
         ELSE IF ~val.some THEN Panic(MsgParseInt) /\ iters' = iters
         ELSE /\ iters' = val.val
              /\ pc' = "parse_is_bump"
              /\ UNCHANGED << stderr, exit_code >>
  /\ UNCHANGED << argv, is_bump, is_zero, is_direct, backend_vars, run_vars,
                  test_vars, clock, stdout, trace >>

\* main: let is_bump: bool = env::args().nth(2).expect(..).parse().unwrap();
ParseIsBump ==
  /\ pc = "parse_is_bump"
  /\ LET arg == nth(argv, 2)
         val == parse_bool(arg.val)
     IN  IF ~arg.some THEN Panic(MsgIsBump) /\ is_bump' = is_bump
         ELSE IF ~val.some THEN Panic(MsgParseBool) /\ is_bump' = is_bump
         ELSE /\ is_bump' = val.val
              /\ pc' = "parse_is_zero"
              /\ UNCHANGED << stderr, exit_code >>
  /\ UNCHANGED << argv, iters, is_zero, is_direct, backend_vars, run_vars,
                  test_vars, clock, stdout, trace >>

\* main: let is_zero: bool = env::args().nth(3).expect(..).parse().unwrap();
ParseIsZero ==
  /\ pc = "parse_is_zero"
  /\ LET arg == nth(argv, 3)
         val == parse_bool(arg.val)
     IN  IF ~arg.some THEN Panic(MsgIsZero) /\ is_zero' = is_zero
         ELSE IF ~val.some THEN Panic(MsgParseBool) /\ is_zero' = is_zero
         ELSE /\ is_zero' = val.val
              /\ pc' = "parse_is_direct"
              /\ UNCHANGED << stderr, exit_code >>
  /\ UNCHANGED << argv, iters, is_bump, is_direct, backend_vars, run_vars,
                  test_vars, clock, stdout, trace >>

\* main: let is_direct: bool = env::args().nth(4).expect(..).parse().unwrap();
ParseIsDirect ==
  /\ pc = "parse_is_direct"
  /\ LET arg == nth(argv, 4)
         val == parse_bool(arg.val)
     IN  IF ~arg.some THEN Panic(MsgIsDirect) /\ is_direct' = is_direct
         ELSE IF ~val.some THEN Panic(MsgParseBool) /\ is_direct' = is_direct
         ELSE /\ is_direct' = val.val
              /\ pc' = "select"
              /\ UNCHANGED << stderr, exit_code >>
  /\ UNCHANGED << argv, iters, is_bump, is_zero, backend_vars, run_vars,
                  test_vars, clock, stdout, trace >>

\* main: if is_bump { let bump = Bump::with_capacity(1024 * iters); run_test(&bump, ..) }
NewBump ==
  /\ pc = "select"
  /\ is_bump
  /\ bump' = [live |-> TRUE, base |-> ArenaBase, cap |-> BytesPerIter * iters,
              cursor |-> 0]
  /\ trace' = Append(trace, Mark("arena_new"))
  /\ pc' = "run_test"
  /\ UNCHANGED << argv, main_vars, heap, run_vars, test_vars, clock, stdout,
                  stderr, exit_code >>

\* main: else { run_test(Global, ..) }
UseGlobal ==
  /\ pc = "select"
  /\ ~is_bump
  /\ pc' = "run_test"
  /\ UNCHANGED << argv, main_vars, backend_vars, run_vars, test_vars, clock,
                  stdout, stderr, exit_code, trace >>

\* The backend handle a passed to run_test.
a == IF is_bump THEN "Bump" ELSE "Global"

\* run_test: let layouts = make_layouts(iters, is_zero);
MakeLayouts ==
  /\ pc = "run_test"
  /\ \E made \in make_layouts(iters, is_zero) :
       IF made.panic
         THEN Panic(MsgLayout) /\ UNCHANGED << layouts, trace >>
         ELSE /\ layouts' = made.layouts
              /\ trace' = Append(trace, Mark("make_layouts"))
              /\ pc' = "dispatch"
              /\ UNCHANGED << stderr, exit_code >>
  /\ UNCHANGED << argv, main_vars, backend_vars, nz_layouts, entry, test_vars,
                  clock, stdout >>

\* run_test: if is_direct { if is_zero { test_alloc_zst(a, &layouts) ..
CallTestAllocZst ==
  /\ pc = "dispatch"
  /\ is_direct /\ is_zero
  /\ entry' = "alloc_zst"
  /\ pc' = "reserve"
  /\ UNCHANGED << argv, main_vars, backend_vars, layouts, nz_layouts, test_vars,
                  clock, stdout, stderr, exit_code, trace >>

\* run_test with the inner condition inverted: the non-zero entry point is
\* taken for the zero-sized distribution.
CallTestAllocNonZst_inverted ==
  /\ pc = "dispatch"
  /\ is_direct /\ is_zero
  /\ IF \E i \in 1..Len(layouts) : ~try_into(layouts[i]).some
       THEN Panic(MsgNonZero) /\ UNCHANGED << nz_layouts, entry, trace >>
       ELSE /\ nz_layouts' = [i \in 1..Len(layouts) |-> try_into(layouts[i]).val]
            /\ trace' = Append(trace, Mark("convert"))
            /\ entry' = "alloc_non_zst"
            /\ pc' = "reserve"
            /\ UNCHANGED << stderr, exit_code >>
  /\ UNCHANGED << argv, main_vars, backend_vars, layouts, test_vars, clock,
                  stdout >>

\* run_test: .. else { test_alloc_non_zst(a, &layouts.iter().map(|l|
\* (*l).try_into().unwrap()).collect()) } }
CallTestAllocNonZst ==
  /\ pc = "dispatch"
  /\ is_direct /\ ~is_zero
  /\ IF \E i \in 1..Len(layouts) : ~try_into(layouts[i]).some
       THEN Panic(MsgNonZero) /\ UNCHANGED << nz_layouts, entry, trace >>
       ELSE /\ nz_layouts' = [i \in 1..Len(layouts) |-> try_into(layouts[i]).val]
            /\ trace' = Append(trace, Mark("convert"))
            /\ entry' = "alloc_non_zst"
            /\ pc' = "reserve"
            /\ UNCHANGED << stderr, exit_code >>
  /\ UNCHANGED << argv, main_vars, backend_vars, layouts, test_vars, clock,
                  stdout >>

\* run_test: else { test_alloc(a, &layouts) }
CallTestAlloc ==
  /\ pc = "dispatch"
  /\ ~is_direct
  /\ entry' = "alloc"
  /\ pc' = "reserve"
  /\ UNCHANGED << argv, main_vars, backend_vars, layouts, nz_layouts, test_vars,
                  clock, stdout, stderr, exit_code, trace >>

\* The slice the called test function iterates over.
batch == IF entry = "alloc_non_zst" THEN nz_layouts ELSE layouts

\* test_*: let mut allocations = Vec::with_capacity(layouts.len());
Reserve ==
  /\ pc = "reserve"
  /\ allocations' = <<>>
  /\ capacity' = Len(batch)
  /\ trace' = Append(trace, Mark("reserve"))
  /\ pc' = "start"
  /\ UNCHANGED << argv, main_vars, backend_vars, run_vars, idx, clock, before,
                  stdout, stderr, exit_code >>

\* test_*: let before = Instant::now();
Start ==
  /\ pc = "start"
  /\ before' = clock
  /\ idx' = 0
  /\ trace' = Append(trace, Mark("start"))
  /\ pc' = "loop"
  /\ UNCHANGED << argv, main_vars, backend_vars, run_vars, allocations,
                  capacity, clock, stdout, stderr, exit_code >>

\* push replaced by an insertion at the front of the buffer.
Push_front(o) ==
  IF o.panic
    THEN /\ Panic(MsgNonZero)
         /\ UNCHANGED << backend_vars, allocations, idx, trace >>
    ELSE /\ heap' = o.heap
         /\ bump' = o.bump
         /\ allocations' = << o.res >> \o allocations
         /\ idx' = idx + 1
         /\ trace' = Append(trace, Event("call", idx + 1, o.ops, o.res))
         /\ UNCHANGED << pc, stderr, exit_code >>

\* push of the unwrapped result: an allocation error panics.
Push_unwrap(o) ==
  IF o.panic \/ ~o.res.ok
    THEN /\ Panic(MsgNonZero)
         /\ heap' = o.heap
         /\ bump' = o.bump
         /\ trace' = Append(trace, Event("call", idx + 1, o.ops, o.res))
         /\ UNCHANGED << allocations, idx >>
    ELSE /\ heap' = o.heap
         /\ bump' = o.bump
         /\ allocations' = Append(allocations, o.res)
         /\ idx' = idx + 1
         /\ trace' = Append(trace, Event("call", idx + 1, o.ops, o.res))
         /\ UNCHANGED << pc, stderr, exit_code >>

\* One pass of a timing loop: allocations.push(<the call>).
Push(o) ==
  IF o.panic
    THEN /\ Panic(MsgNonZero)
         /\ UNCHANGED << backend_vars, allocations, idx, trace >>
    ELSE /\ heap' = o.heap
         /\ bump' = o.bump
         /\ allocations' = Append(allocations, o.res)
         /\ idx' = idx + 1
         /\ trace' = Append(trace, Event("call", idx + 1, o.ops, o.res))
         /\ UNCHANGED << pc, stderr, exit_code >>

\* test_alloc: for layout in layouts { allocations.push(a.alloc(*layout)); }
TestAllocStep ==
  /\ pc = "loop"
  /\ entry = "alloc"
  /\ idx < Len(layouts)
  /\ \E o \in alloc(a, [heap |-> heap, bump |-> bump], layouts[idx + 1]) : Push(o)
  /\ UNCHANGED << argv, main_vars, run_vars, capacity, clock, before, stdout >>

\* test_alloc_zst: for layout in layouts { allocations.push(a.alloc_zst(*layout)); }
TestAllocZstStep ==
  /\ pc = "loop"
  /\ entry = "alloc_zst"
  /\ idx < Len(layouts)
  /\ \E o \in alloc_zst(a, [heap |-> heap, bump |-> bump], layouts[idx + 1]) : Push(o)
  /\ UNCHANGED << argv, main_vars, run_vars, capacity, clock, before, stdout >>

\* test_alloc_non_zst: for layout in layouts { allocations.push(a.alloc_non_zst(*layout)); }
TestAllocNonZstStep ==
  /\ pc = "loop"
  /\ entry = "alloc_non_zst"
  /\ idx < Len(nz_layouts)
  /\ \E o \in alloc_non_zst(a, [heap |-> heap, bump |-> bump], nz_layouts[idx + 1]) :
       Push(o)
  /\ UNCHANGED << argv, main_vars, run_vars, capacity, clock, before, stdout >>

\* The elapsed time printed without waiting for the loop to end.
PrintElapsed_early ==
  /\ pc = "loop"
  /\ idx <= Len(batch)
  /\ \E d \in 0..MaxElapsed :
       /\ clock' = clock + d
       /\ stdout' = Append(stdout, clock' - before)
  /\ trace' = Append(trace, Mark("print"))
  /\ pc' = "done"
  /\ exit_code' = 0
  /\ UNCHANGED << argv, main_vars, backend_vars, run_vars, test_vars, stderr >>

\* test_*: println!("{}", before.elapsed().as_micros()); then run_test and main
\* return and the process exits with status 0.
PrintElapsed ==
  /\ pc = "loop"
  /\ idx = Len(batch)
  /\ \E d \in 0..MaxElapsed :
       /\ clock' = clock + d
       /\ stdout' = Append(stdout, clock' - before)
  /\ trace' = Append(trace, Mark("print"))
  /\ pc' = "done"
  /\ exit_code' = 0
  /\ UNCHANGED << argv, main_vars, backend_vars, run_vars, test_vars, stderr >>

Next ==
  \/ ParseIters
  \/ ParseIsBump
  \/ ParseIsZero
  \/ ParseIsDirect
  \/ NewBump
  \/ UseGlobal
  \/ MakeLayouts
  \/ CallTestAllocZst
  \/ CallTestAllocNonZst
  \/ CallTestAlloc
  \/ Reserve
  \/ Start
  \/ TestAllocStep
  \/ TestAllocZstStep
  \/ TestAllocNonZstStep
  \/ PrintElapsed

Spec == Init /\ [][Next]_vars

(* ------------------------------------------------------------------ *)
(* Properties.                                                         *)
(* ------------------------------------------------------------------ *)

Aligns == { 1, 2, 4, 8 }

\* The backend state of the current state.
Now == [heap |-> heap, bump |-> bump]

\* The allocation calls made so far, in order.
Calls == SelectSeq(trace, LAMBDA e : e.ev = "call")

\* The kinds of the events so far, in order.
EvNames == [i \in 1..Len(trace) |-> trace[i].ev]

IsPrefix(sq, full) ==
  /\ Len(sq) <= Len(full)
  /\ \A i \in 1..Len(sq) : sq[i] = full[i]

\* C1: for every zero-sized layout with alignment in {1,2,4,8} and for the
\* backend of the run (Global or the arena), in every state of a timing loop, alloc_zst yields exactly one
\* outcome: Ok with the address equal
\* to the alignment (so non-null and a multiple of the alignment), no panic,
\* no alloc_non_zst among the operations run, and the heap and the arena
\* left as they were.  In a direct zero-sized run every stored result is that
\* sentinel and the backend is still in its initial state.
C1_AllocZstSentinel ==
  /\ pc = "loop" =>
     \A b \in { a }, al \in Aligns :
       \A o \in alloc_zst(b, Now, Layout(0, al)) :
         /\ Cardinality(alloc_zst(b, Now, Layout(0, al))) = 1
         /\ o.res.ok /\ ~o.panic
         /\ o.res.addr = al /\ o.res.addr # 0 /\ o.res.addr % al = 0
         /\ \A j \in 1..Len(o.ops) : o.ops[j].op # "alloc_non_zst"
         /\ o.heap = heap /\ o.bump = bump
  /\ entry = "alloc_zst" =>
       /\ LET calls == Calls
          IN  \A i \in 1..Len(allocations) :
                /\ layouts[i].size = 0
                /\ allocations[i] = Ok(layouts[i].align)
                /\ \A j \in 1..Len(calls[i].ops) : calls[i].ops[j].op # "alloc_non_zst"
       /\ heap = HeapBase
       /\ bump.cursor = 0

\* C1 witness: a direct zero-sized run on the arena has stored two sentinels,
\* the second for alignment 8.
C1_Witness ==
  /\ entry = "alloc_zst" /\ is_bump
  /\ Len(allocations) = 2
  /\ layouts[2] = Layout(0, 8)
  /\ allocations[2] = Ok(8)

\* C2: for every zero-sized layout and the backend of the run (either one),
\* in every state of a timing loop, alloc gives exactly the outcomes of
\* alloc_zst (same status, same address, same backend state); in a
\* branching run every zero-sized layout was served by alloc_zst alone with the
\* result alloc_zst gives, and a branching zero-sized run leaves the backend
\* in its initial state.
C2_AllocOnZeroIsAllocZst ==
  /\ pc = "loop" =>
     \A b \in { a }, al \in Aligns :
       alloc(b, Now, Layout(0, al)) = alloc_zst(b, Now, Layout(0, al))
  /\ entry = "alloc" =>
       LET calls == Calls
       IN  \A i \in 1..Len(allocations) :
             layouts[i].size = 0 =>
               /\ allocations[i] \in { o.res : o \in alloc_zst(a, Now, layouts[i]) }
               /\ calls[i].ops = << Op("alloc_zst", 0, layouts[i].align) >>
  /\ (entry = "alloc" /\ is_zero) => (heap = HeapBase /\ bump.cursor = 0)

\* C2 witness: a branching zero-sized run has stored the sentinel of a layout
\* of alignment 4.
C2_Witness ==
  /\ entry = "alloc" /\ is_zero
  /\ Len(allocations) >= 1
  /\ layouts[1] = Layout(0, 4)
  /\ allocations[1] = Ok(4)

\* C3: for every layout of positive size and the backend of the run (either
\* one), in every state of a timing loop,
\* alloc never panics and gives exactly
\* the outcomes of alloc_non_zst on the same size and alignment: one
\* alloc_non_zst operation and no sentinel, and a result that is either the
\* allocation error or an address that is non-null and a multiple of the
\* alignment.  In a branching run this is what was recorded for every
\* positive-sized layout.
C3_AllocOnNonZeroDelegates ==
  /\ pc = "loop" =>
     \A size \in gen_range(NonZeroSizeLow, NonZeroSizeHigh) :
       \A b \in { a }, al \in Aligns :
         LET got == alloc(b, Now, Layout(size, al))
         IN  /\ got = alloc_non_zst(b, Now, NonZeroLayout(size, al))
             /\ \A o \in got :
                  /\ ~o.panic
                  /\ o.ops = << Op("alloc_non_zst", size, al) >>
                  /\ IF o.res.ok
                       THEN o.res.addr # 0 /\ o.res.addr % al = 0
                       ELSE o.res = AllocErr
  /\ entry = "alloc" =>
       /\ stderr # MsgNonZero
       /\ LET calls == Calls
          IN  \A i \in 1..Len(allocations) :
                layouts[i].size > 0 =>
                  /\ calls[i].ops
                       = << Op("alloc_non_zst", layouts[i].size, layouts[i].align) >>
                  /\ allocations[i] = calls[i].res
                  /\ allocations[i].ok =>
                       /\ allocations[i].addr # 0
                       /\ allocations[i].addr % layouts[i].align = 0

\* C3 witness: a branching run served a 1-byte layout and then an 8-aligned
\* layout, so the second address had to be rounded up.
C3_Witness ==
  /\ entry = "alloc"
  /\ Len(allocations) = 2
  /\ layouts[1].size = 1
  /\ layouts[2].align = 8 /\ layouts[2].size > 0
  /\ allocations[1].ok /\ allocations[2].ok

\* C4: the calls made so far are one per layout, in the order of the
\* generated sequence, and the results buffer holds their results in that
\* order; a finished run has made exactly iters calls, holds exactly iters
\* results and has printed its line; a loop that has consumed every layout
\* (at once when iters = 0) can print.
C4_OneCallPerLayoutInOrder ==
  LET calls == Calls
  IN  /\ Len(calls) = Len(allocations)
      /\ Len(allocations) = idx
      /\ idx <= iters
      /\ \A k \in 1..Len(calls) :
           /\ calls[k].idx = k
           /\ Len(calls[k].ops) = 1
           /\ calls[k].ops[1].size = layouts[k].size
           /\ calls[k].ops[1].align = layouts[k].align
           /\ allocations[k] = calls[k].res
      /\ pc = "done" =>
           /\ Len(layouts) = iters
           /\ Len(calls) = iters
           /\ Len(allocations) = iters
           /\ Len(stdout) = 1
      /\ (pc = "loop" /\ idx = iters) => ENABLED PrintElapsed
      /\ (pc = "loop" /\ iters = 0) => calls = <<>>

\* C4 witness: a finished run of two iterations over two different layouts.
C4_Witness ==
  /\ pc = "done"
  /\ iters = 2
  /\ Len(allocations) = 2
  /\ layouts[1] # layouts[2]
  /\ allocations[1] # allocations[2]

\* C5: a failed call is stored as the allocation error at its position and
\* the next call, if any, is for the next layout; the process never panics
\* once the clock was started; a loop can always go on (with the next call,
\* or with the print when the layouts are consumed); a finished run printed
\* one line and ended with status 0.
C5_FailureDoesNotAbort ==
  /\ LET calls == Calls
     IN  \A k \in 1..Len(calls) :
           ~calls[k].res.ok =>
             /\ k <= Len(allocations)
             /\ allocations[k] = AllocErr
             /\ k < Len(calls) => calls[k + 1].idx = k + 1
  /\ pc = "panicked" => \A i \in 1..Len(trace) : trace[i].ev \notin { "start", "call" }
  /\ pc = "loop" =>
       IF idx < Len(batch)
         THEN ENABLED (TestAllocStep \/ TestAllocZstStep \/ TestAllocNonZstStep)
         ELSE ENABLED PrintElapsed
  /\ pc = "done" => (exit_code = 0 /\ Len(stdout) = 1 /\ stderr = "")

\* C5 witness: a finished run whose first call failed and whose second call
\* succeeded.
C5_Witness ==
  /\ pc = "done"
  /\ Len(allocations) = 2
  /\ ~allocations[1].ok
  /\ allocations[2].ok

\* C6: every draw of make_layouts is a valid layout with alignment in
\* {1,2,4,8}, of size 0 in the zero-sized mode and of size in [1,1024]
\* otherwise; make_layouts never panics, and once it returned there are
\* exactly iters layouts, all of them such.
C6_GeneratedLayouts ==
  /\ pc = "run_test" =>
     \A z \in BOOLEAN :
       \A d \in draw_layout(z) :
         /\ d.some
         /\ d.val.align \in Aligns
         /\ IF z THEN d.val.size = 0 ELSE d.val.size >= 1 /\ d.val.size <= 1024
  /\ stderr # MsgLayout
  /\ pc \in { "dispatch", "reserve", "start", "loop", "done" } =>
       /\ Len(layouts) = iters
       /\ \A i \in 1..Len(layouts) :
            /\ layouts[i].align \in Aligns
            /\ IF is_zero
                 THEN layouts[i].size = 0
                 ELSE layouts[i].size >= 1 /\ layouts[i].size <= 1024

\* C6 witness: make_layouts returned two non-zero layouts at the two ends of
\* the size range.
C6_Witness ==
  /\ pc = "dispatch"
  /\ ~is_zero
  /\ iters = 2
  /\ layouts[1] = Layout(1024, 8)
  /\ layouts[2] = Layout(1, 1)

\* C7: with a parseable iteration count, allocator selector "0", distribution
\* selector "0" and dispatch selector "1", the process ends with one printed
\* line and status 0.
C7_ZeroOneSelectorsRun ==
  ( /\ Len(argv) = 5
    /\ parse_usize(argv[2]).some
    /\ argv[3] = << "0" >>
    /\ argv[4] = << "0" >>
    /\ argv[5] = << "1" >>
    /\ pc \in { "done", "panicked" } )
  => (exit_code = 0 /\ Len(stdout) = 1)

\* The k-th positional argument is missing or does not parse.
Missing(k) == Len(argv) < k + 1
Bad(k) ==
  \/ Missing(k)
  \/ IF k = 1 THEN ~parse_usize(argv[k + 1]).some ELSE ~parse_bool(argv[k + 1]).some

FirstBad == CHOOSE k \in 1..4 : Bad(k) /\ \A j \in 1..(k - 1) : ~Bad(j)

ParseStage == << "parse_iters", "parse_is_bump", "parse_is_zero", "parse_is_direct" >>

ExpectedMessage(k) ==
  IF Missing(k) THEN << MsgIters, MsgIsBump, MsgIsZero, MsgIsDirect >>[k]
  ELSE IF k = 1 THEN MsgParseInt ELSE MsgParseBool

\* C8: when some positional argument is missing or unparseable, the process
\* never gets past the parsing of the first such argument: it is parsing an
\* argument up to that one, or it has panicked with the message of that
\* argument and a non-zero status; no arena was constructed, no layout
\* generated, no allocation call made and nothing printed; and while it has
\* not panicked it can take a step.
C8_BadArgumentsAreFatal ==
  (\E k \in 1..4 : Bad(k)) =>
    /\ pc \in { ParseStage[j] : j \in 1..FirstBad } \cup { "panicked" }
    /\ bump = NoBump /\ heap = HeapBase
    /\ layouts = <<>> /\ nz_layouts = <<>> /\ allocations = <<>>
    /\ trace = <<>>
    /\ stdout = <<>>
    /\ exit_code # 0
    /\ pc = "panicked" =>
         /\ exit_code = PanicStatus
         /\ stderr = ExpectedMessage(FirstBad)
    /\ pc # "panicked" => (ENABLED Next /\ exit_code = -1)

\* C8 witness: the third argument is missing and the process has panicked
\* with the message of the distribution selector.
C8_Witness ==
  /\ Len(argv) = 3
  /\ ~Bad(1) /\ ~Bad(2)
  /\ pc = "panicked"
  /\ stderr = MsgIsZero

\* The specialised operation that matches a layout's kind.
MatchingOp(l) == IF l.size = 0 THEN "alloc_zst" ELSE "alloc_non_zst"

\* C9: the entry point is fixed by the flags alone (in direct style alloc_zst
\* when is_zero and alloc_non_zst otherwise); every call ran exactly the one
\* specialised operation that matches the kind of its layout, with that
\* layout's size and alignment, whatever the dispatch style, and in direct
\* style that operation is the entry point; the conversion of the batch to
\* NonZeroLayout never panics and keeps every size and alignment.
C9_DirectMatchesBranching ==
  /\ entry # "" =>
       entry = (IF ~is_direct THEN "alloc"
                ELSE IF is_zero THEN "alloc_zst" ELSE "alloc_non_zst")
  /\ LET calls == Calls
     IN  \A k \in 1..Len(calls) :
           /\ calls[k].ops
                = << Op(MatchingOp(layouts[k]), layouts[k].size, layouts[k].align) >>
           /\ is_direct => calls[k].ops[1].op = entry
           /\ calls[k].ops[1].op = "alloc_zst" => calls[k].ops[1].size = 0
           /\ calls[k].ops[1].op = "alloc_non_zst" => calls[k].ops[1].size > 0
  /\ stderr # MsgNonZero
  /\ entry = "alloc_non_zst" =>
       /\ Len(nz_layouts) = Len(layouts)
       /\ \A i \in 1..Len(layouts) : into(nz_layouts[i]) = layouts[i]

\* C9 witness: a finished direct run over two non-zero layouts.
C9_Witness ==
  /\ pc = "done"
  /\ is_direct /\ ~is_zero
  /\ Len(allocations) = 2
  /\ Len(Calls) = 2
  /\ Calls[1].ops[1].op = "alloc_non_zst"

\* The events of a complete run, in order.
ExpectedEvents ==
  (IF is_bump THEN << "arena_new" >> ELSE <<>>)
    \o << "make_layouts" >>
    \o (IF is_direct /\ ~is_zero THEN << "convert" >> ELSE <<>>)
    \o << "reserve", "start" >>
    \o [i \in 1..iters |-> "call"]
    \o << "print" >>

\* C10: the events so far are a prefix of: arena construction (if selected),
\* generation of the layouts, conversion of the batch (direct non-zero only),
\* reservation of the buffer, start timestamp, the iters calls, the print;
\* when the start timestamp is taken all layouts exist and the buffer is
\* reserved for them; at most one line is ever printed, only by a finished
\* run, and it is the non-negative time elapsed since the start timestamp.
C10_EventOrder ==
  /\ IsPrefix(EvNames, ExpectedEvents)
  /\ pc = "done" => EvNames = ExpectedEvents
  /\ pc = "loop" => (Len(layouts) = iters /\ capacity = iters /\ Len(batch) = iters)
  /\ Len(stdout) <= 1
  /\ Len(stdout) = 1 =>
       /\ pc = "done"
       /\ stdout[1] = clock - before
       /\ stdout[1] >= 0

\* C10 witness: a finished direct non-zero run on the arena, two iterations.
C10_Witness ==
  /\ pc = "done"
  /\ is_bump /\ is_direct /\ ~is_zero
  /\ iters = 2
  /\ Len(trace) = 8

====
